---- MODULE Spec2Model ----
(***************************************************************************)
(* Model of src/src/package.py: Packager.run and the steps it calls, for   *)
(* one job (one refid) in one process.  The local file system is modelled  *)
(* by three places: the source directory source_dir/<refid>, the working   *)
(* directory tmp_dir/<refid> (bag_dir) and the archive                     *)
(* tmp_dir/<refid>.tar.gz.  Every call that can raise in the code (remote  *)
(* collaborators, ffmpeg, copytree, rmtree, unlink, tarfile) raises        *)
(* nondeterministically.                                                   *)
(***************************************************************************)
EXTENDS Integers, Sequences, FiniteSets, TLC

VARIABLES
    pc,              \* position of run(): the step about to execute, or "returned"/"raised"
    format,          \* self.format; Unset while the attribute does not exist
    srcExists,       \* source_dir/<refid> is a directory
    srcFiles,        \* files in source_dir/<refid>
    src0,            \* the source directory as it was when run() started
    bagExists,       \* tmp_dir/<refid> is a directory
    bagFiles,        \* files in tmp_dir/<refid>
    bagged,          \* bagit.make_bag has written manifest and bag-info over bag_dir
    tarExists,       \* tmp_dir/<refid>.tar.gz exists
    tarFiles,        \* payload written into the archive
    tarComplete,     \* the archive was written completely
    uploads,         \* sequence of objects put to the object store
    events,          \* sequence of events published to the topic
    calls,           \* sequence of methods run() has invoked
    exc,             \* the exception caught by `except Exception as e` (NoExc if none)
    unhandled,       \* the method whose exception left run() uncaught ("none" if none)
    compressed_path, \* value returned by compress_bag
    delivered_path,  \* argument deliver_package was called with
    notified_exc,    \* argument deliver_failure_notification was called with
    pre,             \* the file system and the uploads as they were when the last step started
    rights_arg,      \* the rights_ids string the constructor was called with
    rights_ids,      \* self.rights_ids
    as_dates,        \* the dates the registry holds for the archival object
    find_result,     \* number of archival objects the last find_by_id returned (-1: none yet)
    date_range,      \* value returned by get_date_range
    bag_info         \* metadata written by bagit.make_bag

vars == <<pc, format, srcExists, srcFiles, src0, bagExists, bagFiles, bagged,
          tarExists, tarFiles, tarComplete, uploads, events, calls, exc,
          unhandled, compressed_path, delivered_path, notified_exc, pre,
          rights_arg, rights_ids, as_dates, find_result, date_range, bag_info>>

\* the variables only create_bag writes, and the inputs it reads
MetaVars == <<rights_arg, rights_ids, as_dates, find_result, date_range, bag_info>>

(***************************************************************************)
(* Bounds and constants                                                    *)
(***************************************************************************)
\* largest number of archival objects the registry returns for one ref_id
MaxResults == 2

Unset == "unset"
UnknownFormat == "unknown format"
NoPath == "none"
BagDir == "tmp/refid"
NoExc == [step |-> "none", op |-> "none", idx |-> 0]

\* file names a staged source directory may hold
SourceFiles == {"refid.mp3", "other.mp3", "refid.mp4", "refid.mov", "refid.mkv", "refid.wav"}

\* file names a list handed to parse_format may hold
ListedFiles == SourceFiles \cup {"refid.tif", "refid.jpg"}

Suffix(f) ==
    CASE f = "refid.mp3" -> ".mp3"
      [] f = "other.mp3" -> ".mp3"
      [] f = "refid.mp4" -> ".mp4"
      [] f = "refid.mov" -> ".mov"
      [] f = "refid.mkv" -> ".mkv"
      [] f = "refid.wav" -> ".wav"
      [] f = "poster.png" -> ".png"
      [] f = "refid.tif" -> ".tif"
      [] f = "refid.jpg" -> ".jpg"
      [] f = "refid.tar.gz" -> ".gz"
      [] OTHER -> ""

\* Path.name of the paths run() passes around
PathName(p) ==
    CASE p = "tmp/refid.tar.gz" -> "refid.tar.gz"
      [] p = "tmp/refid" -> "refid"
      [] OTHER -> p

\* Path(f"{bag_dir}.tar.gz")
ArchivePath(bag_dir) == bag_dir \o ".tar.gz"

ForwardSteps ==
    << "get_config", "move_to_tmp", "parse_format", "create_poster",
       "deliver_derivatives", "create_bag", "compress_bag", "deliver_package",
       "cleanup_successful_job", "deliver_success_notification" >>

Terminal == {"returned", "raised"}

IndexOf(step) == CHOOSE i \in 1..Len(ForwardSteps) : ForwardSteps[i] = step

\* the element after step in a sequence of statements; "returned" after the last
StepAfter(order, step) ==
    LET i == CHOOSE k \in 1..Len(order) : order[k] = step
    IN  IF i = Len(order) THEN "returned" ELSE order[i + 1]

\* variant: create_poster is left out of the sequence
NextForward_NoPoster(step) ==
    StepAfter(<< "get_config", "move_to_tmp", "parse_format",
                 "deliver_derivatives", "create_bag", "compress_bag", "deliver_package",
                 "cleanup_successful_job", "deliver_success_notification" >>, step)

\* variant: the source is removed before the package is delivered
NextForward_CleanupBeforeDeliver(step) ==
    StepAfter(<< "get_config", "move_to_tmp", "parse_format", "create_poster",
                 "deliver_derivatives", "create_bag", "compress_bag",
                 "cleanup_successful_job", "deliver_package",
                 "deliver_success_notification" >>, step)

\* variant: the success notification is sent before the source is removed
NextForward_NotifyBeforeCleanup(step) ==
    StepAfter(<< "get_config", "move_to_tmp", "parse_format", "create_poster",
                 "deliver_derivatives", "create_bag", "compress_bag", "deliver_package",
                 "deliver_success_notification", "cleanup_successful_job" >>, step)

\* variant: the bag is made before the derivatives are delivered
NextForward_BagBeforeDerivatives(step) ==
    StepAfter(<< "get_config", "move_to_tmp", "parse_format", "create_poster",
                 "create_bag", "deliver_derivatives", "compress_bag", "deliver_package",
                 "cleanup_successful_job", "deliver_success_notification" >>, step)

\* the statement run() executes after a forward step returns
NextForward(step) == StepAfter(ForwardSteps, step)

\* variant: deliver_success_notification is called after the try statement
OnException_NotifyOutsideTry(step) ==
    IF step = "deliver_success_notification" THEN "raised" ELSE "cleanup_failed_job"

\* where control goes when a forward step raises: every forward step is
\* inside the try block, so the except clause starts with cleanup_failed_job
OnException(step) == "cleanup_failed_job"

\* the statement the except clause executes after cleanup_failed_job returns
AfterCleanup == "deliver_failure_notification"

\* variant: a failed failure notification runs the except clause again
OnHandlerException_Retry(step) ==
    IF step = "deliver_failure_notification" THEN "cleanup_failed_job" ELSE "raised"

\* where control goes when a statement of the except clause raises
OnHandlerException(step) == "raised"

\* variant: the format attribute is never read
FormatAttr_AlwaysUnknown(fmt) == UnknownFormat

\* getattr(self, 'format', 'unknown format')
FormatAttr(fmt) == IF fmt = Unset THEN UnknownFormat ELSE fmt

Snapshot ==
    [bagExists |-> bagExists, bagFiles |-> bagFiles, tarExists |-> tarExists,
     srcExists |-> srcExists, srcFiles |-> srcFiles, uploads |-> uploads]

(***************************************************************************)
(* Pure functions                                                          *)
(***************************************************************************)
\* variant: ffmpeg runs for every format
PosterWanted_Always(fmt) == TRUE

\* create_poster: if self.format == 'video'
PosterWanted(fmt) == fmt = "video"

\* variant: the video test comes first
parse_format_VideoFirst(file_list) ==
    IF \E f \in file_list : Suffix(f) = ".mp4" THEN "video"
    ELSE IF \E f \in file_list : Suffix(f) = ".mp3" THEN "audio"
    ELSE "raise"

\* parse_format: "raise" stands for the raised Exception
parse_format(file_list) ==
    IF \E f \in file_list : Suffix(f) = ".mp3" THEN "audio"
    ELSE IF \E f \in file_list : Suffix(f) = ".mp4" THEN "video"
    ELSE "raise"

\* variant: the buckets of the mezzanine and the access file are exchanged
derivative_map_SwappedBuckets(fmt) ==
    IF fmt = "video" THEN
        << [dir |-> BagDir, path |-> "refid.mov",
            bucket |-> "destination_video_access", ctype |-> "video/quicktime"],
           [dir |-> BagDir, path |-> "refid.mp4",
            bucket |-> "destination_video_mezz", ctype |-> "video/mp4"],
           [dir |-> BagDir, path |-> "poster.png",
            bucket |-> "destination_poster", ctype |-> "image/x-png"] >>
    ELSE
        << [dir |-> BagDir, path |-> "refid.mp3",
            bucket |-> "destination_audio_access", ctype |-> "audio/mpeg"] >>

derivative_map(fmt) ==
    IF fmt = "video" THEN
        << [dir |-> BagDir, path |-> "refid.mov",
            bucket |-> "destination_video_mezz", ctype |-> "video/quicktime"],
           [dir |-> BagDir, path |-> "refid.mp4",
            bucket |-> "destination_video_access", ctype |-> "video/mp4"],
           [dir |-> BagDir, path |-> "poster.png",
            bucket |-> "destination_poster", ctype |-> "image/x-png"] >>
    ELSE
        << [dir |-> BagDir, path |-> "refid.mp3",
            bucket |-> "destination_audio_access", ctype |-> "audio/mpeg"] >>

\* the object put for one entry of the derivative map
DerivativeObject(entry) ==
    [bucket |-> entry.bucket, key |-> "refid" \o Suffix(entry.path), ctype |-> entry.ctype]

\* variant: the object key is the whole local path
PackageObject_FullPath(package_path) ==
    [bucket |-> "destination", key |-> package_path, ctype |-> "application/gzip"]

\* the object put for the compressed package
PackageObject(package_path) ==
    [bucket |-> "destination", key |-> PathName(package_path), ctype |-> "application/gzip"]

\* variant: the local file is unlinked before its upload
UnlinkedBeforeUpload_Eager(plan, i) == {plan[j].path : j \in (1..i) \cap DOMAIN plan}

\* local files deliver_derivatives has unlinked when the upload of entry i raises
UnlinkedBeforeUpload(plan, i) == {plan[j].path : j \in 1..(i - 1)}

\* objects deliver_derivatives has put when entry i is reached
PutBefore(plan, i) == [j \in 1..(i - 1) |-> DerivativeObject(plan[j])]

(***************************************************************************)
(* Rights identifiers: [r.strip() for r in rights_ids.split(',')]          *)
(* A string is a sequence of characters.                                   *)
(***************************************************************************)
\* longest rights_ids string handed to the constructor
MaxRightsLen == 3

RightsChars == {"1", "2", " ", ","}

RECURSIVE SplitFrom(_, _, _)
\* str.split(','): s scanned from position i with the current piece cur
SplitFrom(s, i, cur) ==
    IF i > Len(s) THEN << cur >>
    ELSE IF s[i] = "," THEN << cur >> \o SplitFrom(s, i + 1, << >>)
    ELSE SplitFrom(s, i + 1, Append(cur, s[i]))

Split(s) == SplitFrom(s, 1, << >>)

RECURSIVE LStrip(_)
LStrip(s) == IF s # << >> /\ s[1] = " " THEN LStrip(Tail(s)) ELSE s

RECURSIVE RStrip(_)
RStrip(s) ==
    IF s # << >> /\ s[Len(s)] = " " THEN RStrip(SubSeq(s, 1, Len(s) - 1)) ELSE s

\* str.strip()
Strip(s) == RStrip(LStrip(s))

\* self.rights_ids as the constructor computes it
ParseRights(arg) == [i \in 1..Len(Split(arg)) |-> Strip(Split(arg)[i])]

(***************************************************************************)
(* Dates.  An ArchivesSpace date string YYYY, YYYY-MM or YYYY-MM-DD is the *)
(* sequence of its numeric fields; with zero-padded fields the order of    *)
(* the strings is the lexicographic order of the sequences, a proper       *)
(* prefix being smaller.                                                   *)
(***************************************************************************)
\* longest date list the registry returns
MaxDates == 2

NoDate == << >>
\* the value standing for an exception raised by get_date_range
Raised == [ok |-> FALSE, start |-> NoDate, end |-> NoDate]

\* len(date_string)
StrLen(d) == CASE Len(d) = 1 -> 4 [] Len(d) = 2 -> 7 [] OTHER -> 10

\* a < b for strings
StrLess(a, b) ==
    \/ \E i \in 1..Len(a) :
          /\ i <= Len(b)
          /\ a[i] < b[i]
          /\ \A j \in 1..(i - 1) : a[j] = b[j]
    \/ /\ Len(a) < Len(b)
       /\ \A j \in 1..Len(a) : a[j] = b[j]

RECURSIVE Insert(_, _)
Insert(x, sorted) ==
    IF sorted = << >> THEN << x >>
    ELSE IF StrLess(x, sorted[1]) THEN << x >> \o sorted
    ELSE << sorted[1] >> \o Insert(x, Tail(sorted))

RECURSIVE Sorted(_)
\* sorted(list)
Sorted(list) == IF list = << >> THEN << >> ELSE Insert(list[1], Sorted(Tail(list)))

\* variant: the lists are not sorted, the first begin and the last end are taken
get_date_range_Unsorted(dates_array) ==
    IF \E i \in 1..Len(dates_array) :
          dates_array[i].date_type # "single" /\ dates_array[i].end = NoDate
    THEN Raised
    ELSE IF dates_array = << >> THEN Raised
    ELSE LET start_dates == [i \in 1..Len(dates_array) |-> dates_array[i].begin]
             end_dates == [i \in 1..Len(dates_array) |->
                             IF dates_array[i].date_type = "single"
                             THEN dates_array[i].begin ELSE dates_array[i].end]
         IN  [ok |-> TRUE, start |-> start_dates[1], end |-> end_dates[Len(end_dates)]]

\* get_date_range: Raised stands for the KeyError of a range without 'end'
\* and the IndexError of an empty list
get_date_range(dates_array) ==
    IF \E i \in 1..Len(dates_array) :
          dates_array[i].date_type # "single" /\ dates_array[i].end = NoDate
    THEN Raised
    ELSE IF dates_array = << >> THEN Raised
    ELSE LET start_dates == [i \in 1..Len(dates_array) |-> dates_array[i].begin]
             end_dates == [i \in 1..Len(dates_array) |->
                             IF dates_array[i].date_type = "single"
                             THEN dates_array[i].begin ELSE dates_array[i].end]
         IN  [ok |-> TRUE, start |-> Sorted(start_dates)[1],
              end |-> Sorted(end_dates)[Len(end_dates)]]

IsLeap(y) == (y % 4 = 0 /\ y % 100 # 0) \/ y % 400 = 0

\* calendar.monthrange(y, m)[1]
DaysInMonth(y, m) ==
    IF m = 2 THEN (IF IsLeap(y) THEN 29 ELSE 28)
    ELSE IF m \in {4, 6, 9, 11} THEN 30
    ELSE 31

\* parser.isoparse: missing month and day default to 1
IsoParse(d) ==
    << d[1], IF Len(d) >= 2 THEN d[2] ELSE 1, IF Len(d) >= 3 THEN d[3] ELSE 1 >>

\* variant: the day is set to 31 in every month
WithDay31_Uncut(date) == << date[1], date[2], 31 >>

\* date + relativedelta(day=31): the day is cut to the length of the month
WithDay31(date) ==
    << date[1], date[2],
       IF DaysInMonth(date[1], date[2]) < 31 THEN DaysInMonth(date[1], date[2]) ELSE 31 >>

\* date + relativedelta(month=12, day=31)
WithMonth12Day31(date) == WithDay31(<< date[1], 12, date[3] >>)

\* variant: the end is parsed like the start
format_aspace_date_EndLikeStart(start_date, end_date) ==
    [start |-> IsoParse(start_date), end |-> IsoParse(end_date)]

format_aspace_date(start_date, end_date) ==
    [start |-> IsoParse(start_date),
     end |-> IF StrLen(end_date) = 4 THEN WithMonth12Day31(IsoParse(end_date))
             ELSE IF StrLen(end_date) = 7 THEN WithDay31(IsoParse(end_date))
             ELSE end_date]

\* variant: the first of several archival objects is taken
UriFound_First(n) == n >= 1

\* len(results.get("archival_objects")) == 1
UriFound(n) == n = 1

NoRange == [ok |-> FALSE, start |-> NoDate, end |-> NoDate]
NoInfo ==
    [uri |-> "", start |-> NoDate, end |-> NoDate, origin |-> "",
     rights |-> << >>, profile |-> ""]

\* the constructor argument and the registry dates of the runs of Spec
RunRights == { << "1", ",", "2" >> }
RunDateArrays ==
    { << [date_type |-> "single", begin |-> << 1950 >>, end |-> NoDate] >>,
      << [date_type |-> "inclusive", begin |-> << 1950, 3 >>, end |-> << 1952, 2 >>],
         [date_type |-> "single", begin |-> << 1900 >>, end |-> NoDate] >>,
      << [date_type |-> "inclusive", begin |-> << 1950 >>, end |-> NoDate] >> }

(***************************************************************************)
(* Initial state: a fresh Packager in a fresh process                      *)
(***************************************************************************)
Init ==
    /\ pc = "get_config"
    /\ format = Unset
    /\ srcExists \in BOOLEAN
    /\ srcFiles \in SUBSET SourceFiles
    /\ (~srcExists => srcFiles = {})
    /\ src0 = [exists |-> srcExists, files |-> srcFiles]
    /\ bagExists \in BOOLEAN
    /\ bagFiles = {}
    /\ bagged = FALSE
    /\ tarExists \in BOOLEAN
    /\ tarFiles = {}
    /\ tarComplete = FALSE
    /\ uploads = << >>
    /\ events = << >>
    /\ calls = << >>
    /\ exc = NoExc
    /\ unhandled = "none"
    /\ compressed_path = NoPath
    /\ delivered_path = NoPath
    /\ notified_exc = NoExc
    /\ pre = [bagExists |-> bagExists, bagFiles |-> {}, tarExists |-> tarExists,
              srcExists |-> srcExists, srcFiles |-> srcFiles, uploads |-> << >>]
    /\ rights_arg \in RunRights
    /\ rights_ids = ParseRights(rights_arg)
    /\ as_dates \in RunDateArrays
    /\ find_result = -1
    /\ date_range = NoRange
    /\ bag_info = NoInfo

(***************************************************************************)
(* Helpers shared by the steps                                             *)
(***************************************************************************)
Enter(step) ==
    /\ pc = step
    /\ calls' = Append(calls, step)
    /\ pre' = Snapshot

Return(step) ==
    /\ pc' = NextForward(step)
    /\ UNCHANGED <<exc, unhandled>>

Raise(step, op, i) ==
    /\ pc' = OnException(step)
    /\ IF OnException(step) = "raised"
       THEN /\ unhandled' = step
            /\ UNCHANGED exc
       ELSE /\ exc' = [step |-> step, op |-> op, idx |-> i]
            /\ UNCHANGED unhandled

(***************************************************************************)
(* The forward steps of run()                                              *)
(***************************************************************************)
\* lines 50-56: get_config, then the ASpace client built from it
get_config ==
    /\ Enter("get_config")
    /\ \/ Return("get_config")
       \/ \E op \in {"ssm", "aspace"} : Raise("get_config", op, 0)
    /\ UNCHANGED MetaVars
    /\ UNCHANGED <<format, srcExists, srcFiles, src0, bagExists, bagFiles, bagged,
                   tarExists, tarFiles, tarComplete, uploads, events,
                   compressed_path, delivered_path, notified_exc>>

\* variant: the source directory is moved, not copied
move_to_tmp_Moves ==
    /\ Enter("move_to_tmp")
    /\ \/ /\ ~srcExists
          /\ Raise("move_to_tmp", "no_source", 0)
          /\ UNCHANGED <<bagExists, bagFiles, srcExists, srcFiles>>
       \/ /\ srcExists /\ bagExists
          /\ Raise("move_to_tmp", "dest_exists", 0)
          /\ UNCHANGED <<bagExists, bagFiles, srcExists, srcFiles>>
       \/ /\ srcExists /\ ~bagExists
          /\ bagExists' = TRUE
          /\ bagFiles' = srcFiles
          /\ srcExists' = FALSE
          /\ srcFiles' = {}
          /\ Return("move_to_tmp")
    /\ UNCHANGED MetaVars
    /\ UNCHANGED <<format, src0, bagged, tarExists, tarFiles,
                   tarComplete, uploads, events, compressed_path, delivered_path,
                   notified_exc>>

\* copytree(source_dir/<refid>, bag_dir)
move_to_tmp ==
    /\ Enter("move_to_tmp")
    /\ \/ /\ ~srcExists                      \* source missing: nothing is created
          /\ Raise("move_to_tmp", "no_source", 0)
          /\ UNCHANGED <<bagExists, bagFiles>>
       \/ /\ srcExists /\ bagExists          \* destination exists: FileExistsError
          /\ Raise("move_to_tmp", "dest_exists", 0)
          /\ UNCHANGED <<bagExists, bagFiles>>
       \/ /\ srcExists /\ ~bagExists         \* some file could not be copied
          /\ \E copied \in (SUBSET srcFiles) \ {srcFiles} :
                /\ bagExists' = TRUE
                /\ bagFiles' = copied
          /\ Raise("move_to_tmp", "copy", 0)
       \/ /\ srcExists /\ ~bagExists
          /\ bagExists' = TRUE
          /\ bagFiles' = srcFiles
          /\ Return("move_to_tmp")
    /\ UNCHANGED MetaVars
    /\ UNCHANGED <<format, srcExists, srcFiles, src0, bagged, tarExists, tarFiles,
                   tarComplete, uploads, events, compressed_path, delivered_path,
                   notified_exc>>

\* self.format = self.parse_format(list(bag_dir.glob("*")))
parse_format_step ==
    /\ Enter("parse_format")
    /\ IF parse_format(bagFiles) = "raise"
       THEN /\ Raise("parse_format", "unrecognized", 0)
            /\ UNCHANGED format
       ELSE /\ format' = parse_format(bagFiles)
            /\ Return("parse_format")
    /\ UNCHANGED MetaVars
    /\ UNCHANGED <<srcExists, srcFiles, src0, bagExists, bagFiles, bagged,
                   tarExists, tarFiles, tarComplete, uploads, events,
                   compressed_path, delivered_path, notified_exc>>

\* ffmpeg writes poster.png from <refid>.mp4 when the format is video
create_poster ==
    /\ Enter("create_poster")
    /\ \/ /\ ~PosterWanted(format)
          /\ Return("create_poster")
          /\ UNCHANGED bagFiles
       \/ /\ PosterWanted(format)
          /\ "refid.mp4" \in bagFiles
          /\ bagFiles' = bagFiles \cup {"poster.png"}
          /\ Return("create_poster")
       \/ /\ PosterWanted(format)            \* ffmpeg fails, with or without output
          /\ \E partial \in BOOLEAN :
                bagFiles' = IF partial THEN bagFiles \cup {"poster.png"} ELSE bagFiles
          /\ Raise("create_poster", "ffmpeg", 0)
    /\ UNCHANGED MetaVars
    /\ UNCHANGED <<format, srcExists, srcFiles, src0, bagExists, bagged, tarExists,
                   tarFiles, tarComplete, uploads, events, compressed_path,
                   delivered_path, notified_exc>>

\* for each entry of derivative_map(): upload_file, then unlink
deliver_derivatives ==
    /\ Enter("deliver_derivatives")
    /\ LET plan == derivative_map(format)
           Present(n) == \A j \in 1..n : plan[j].path \in bagFiles
       IN  \/ /\ Raise("deliver_derivatives", "client", 0)
              /\ UNCHANGED <<bagFiles, uploads>>
           \/ \E i \in 1..Len(plan) :        \* upload_file of entry i raises
                /\ Present(i - 1)
                /\ uploads' = uploads \o PutBefore(plan, i)
                /\ bagFiles' = bagFiles \ UnlinkedBeforeUpload(plan, i)
                /\ Raise("deliver_derivatives", "upload", i)
           \/ \E i \in 1..Len(plan) :        \* unlink of entry i raises
                /\ Present(i)
                /\ uploads' = uploads \o PutBefore(plan, i + 1)
                /\ bagFiles' = bagFiles \ UnlinkedBeforeUpload(plan, i)
                /\ Raise("deliver_derivatives", "unlink", i)
           \/ /\ Present(Len(plan))
              /\ uploads' = uploads \o PutBefore(plan, Len(plan) + 1)
              /\ bagFiles' = bagFiles \ UnlinkedBeforeUpload(plan, Len(plan) + 1)
              /\ Return("deliver_derivatives")
    /\ UNCHANGED MetaVars
    /\ UNCHANGED <<format, srcExists, srcFiles, src0, bagExists, bagged, tarExists,
                   tarFiles, tarComplete, events, compressed_path, delivered_path,
                   notified_exc>>

\* uri_from_refid (exactly one archival object), get_date_range,
\* format_aspace_date, bagit.make_bag(bag_dir, metadata)
create_bag ==
    /\ Enter("create_bag")
    /\ \/ /\ Raise("create_bag", "http", 0)      \* the find_by_id request fails
          /\ UNCHANGED <<bagged, find_result, date_range, bag_info>>
       \/ \E n \in 0..MaxResults :
            /\ find_result' = n
            /\ IF ~UriFound(n)
               THEN /\ Raise("create_bag", "results", n)
                    /\ UNCHANGED <<bagged, date_range, bag_info>>
               ELSE \/ /\ Raise("create_bag", "dates_http", 0)   \* find_closest_value fails
                       /\ UNCHANGED <<bagged, date_range, bag_info>>
                    \/ /\ get_date_range(as_dates) = Raised
                       /\ Raise("create_bag", "dates", 0)
                       /\ UNCHANGED <<bagged, date_range, bag_info>>
                    \/ /\ get_date_range(as_dates) # Raised
                       /\ date_range' = get_date_range(as_dates)
                       /\ LET formatted == format_aspace_date(date_range'.start,
                                                              date_range'.end)
                          IN  bag_info' = [uri |-> "/repositories/2/archival_objects/1",
                                           start |-> formatted.start,
                                           end |-> formatted.end,
                                           origin |-> "av_digitization",
                                           rights |-> rights_ids,
                                           profile |-> "zorya_bagit_profile.json"]
                       /\ bagged' = TRUE
                       /\ Return("create_bag")
    /\ UNCHANGED <<rights_arg, rights_ids, as_dates>>
    /\ UNCHANGED <<format, srcExists, srcFiles, src0, bagExists, bagFiles, tarExists,
                   tarFiles, tarComplete, uploads, events, compressed_path,
                   delivered_path, notified_exc>>

\* variant: the directory is removed before the archive is written
compress_bag_RemoveFirst ==
    /\ Enter("compress_bag")
    /\ \/ /\ \E left \in SUBSET bagFiles : bagFiles' = left
          /\ Raise("compress_bag", "rmtree", 0)
          /\ UNCHANGED <<bagExists, tarExists, tarFiles, tarComplete, compressed_path>>
       \/ /\ bagExists' = FALSE
          /\ bagFiles' = {}
          /\ tarExists' = TRUE
          /\ tarFiles' = {}
          /\ tarComplete' = FALSE
          /\ Raise("compress_bag", "add", 0)
          /\ UNCHANGED compressed_path
       \/ /\ tarExists' = TRUE
          /\ tarFiles' = bagFiles
          /\ tarComplete' = TRUE
          /\ bagExists' = FALSE
          /\ bagFiles' = {}
          /\ compressed_path' = ArchivePath(BagDir)
          /\ Return("compress_bag")
    /\ UNCHANGED MetaVars
    /\ UNCHANGED <<format, srcExists, srcFiles, src0, bagged, uploads, events,
                   delivered_path, notified_exc>>

\* tarfile.open(..., "w:gz"); tar.add(bag_dir); rmtree(bag_dir)
compress_bag ==
    /\ Enter("compress_bag")
    /\ \/ /\ Raise("compress_bag", "open", 0)
          /\ UNCHANGED <<bagExists, bagFiles, tarExists, tarFiles, tarComplete,
                         compressed_path>>
       \/ /\ tarExists' = TRUE               \* tar.add raises: a partial archive is left
          /\ \E written \in SUBSET bagFiles : tarFiles' = written
          /\ tarComplete' = FALSE
          /\ Raise("compress_bag", "add", 0)
          /\ UNCHANGED <<bagExists, bagFiles, compressed_path>>
       \/ /\ tarExists' = TRUE               \* rmtree raises: the directory is left
          /\ tarFiles' = bagFiles
          /\ tarComplete' = TRUE
          /\ \E left \in SUBSET bagFiles : bagFiles' = left
          /\ Raise("compress_bag", "rmtree", 0)
          /\ UNCHANGED <<bagExists, compressed_path>>
       \/ /\ tarExists' = TRUE
          /\ tarFiles' = bagFiles
          /\ tarComplete' = TRUE
          /\ bagExists' = FALSE
          /\ bagFiles' = {}
          /\ compressed_path' = ArchivePath(BagDir)
          /\ Return("compress_bag")
    /\ UNCHANGED MetaVars
    /\ UNCHANGED <<format, srcExists, srcFiles, src0, bagged, uploads, events,
                   delivered_path, notified_exc>>

\* upload_file(package_path, destination_bucket, package_path.name); unlink
deliver_package ==
    /\ Enter("deliver_package")
    /\ delivered_path' = compressed_path
    /\ \/ /\ \E op \in {"client", "upload"} : Raise("deliver_package", op, 0)
          /\ UNCHANGED <<uploads, tarExists>>
       \/ /\ uploads' = Append(uploads, PackageObject(compressed_path))
          /\ Raise("deliver_package", "unlink", 0)
          /\ UNCHANGED tarExists
       \/ /\ uploads' = Append(uploads, PackageObject(compressed_path))
          /\ tarExists' = FALSE
          /\ Return("deliver_package")
    /\ UNCHANGED MetaVars
    /\ UNCHANGED <<format, srcExists, srcFiles, src0, bagExists, bagFiles, bagged,
                   tarFiles, tarComplete, events, compressed_path, notified_exc>>

\* rmtree(source_dir/<refid>)
cleanup_successful_job ==
    /\ Enter("cleanup_successful_job")
    /\ \/ /\ \E left \in SUBSET srcFiles : srcFiles' = left
          /\ Raise("cleanup_successful_job", "rmtree", 0)
          /\ UNCHANGED srcExists
       \/ /\ srcExists' = FALSE
          /\ srcFiles' = {}
          /\ Return("cleanup_successful_job")
    /\ UNCHANGED MetaVars
    /\ UNCHANGED <<format, src0, bagExists, bagFiles, bagged, tarExists, tarFiles,
                   tarComplete, uploads, events, compressed_path, delivered_path,
                   notified_exc>>

\* client.publish(... outcome SUCCESS ...)
deliver_success_notification ==
    /\ Enter("deliver_success_notification")
    /\ \/ /\ \E op \in {"client", "publish"} :
                Raise("deliver_success_notification", op, 0)
          /\ UNCHANGED events
       \/ /\ events' = Append(events, [outcome |-> "SUCCESS", format |-> format,
                                       refid |-> "refid", message |-> NoExc])
          /\ Return("deliver_success_notification")
    /\ UNCHANGED MetaVars
    /\ UNCHANGED <<format, srcExists, srcFiles, src0, bagExists, bagFiles, bagged,
                   tarExists, tarFiles, tarComplete, uploads, compressed_path,
                   delivered_path, notified_exc>>

(***************************************************************************)
(* The except clause of run()                                              *)
(***************************************************************************)
\* if bag_dir.is_dir(): rmtree(bag_dir); Path(archive).unlink(missing_ok=True)
cleanup_failed_job ==
    /\ Enter("cleanup_failed_job")
    /\ \/ /\ bagExists                       \* rmtree raises
          /\ \E left \in SUBSET bagFiles : bagFiles' = left
          /\ pc' = OnHandlerException("cleanup_failed_job")
          /\ unhandled' = "cleanup_failed_job"
          /\ UNCHANGED <<bagExists, tarExists>>
       \/ /\ tarExists                       \* unlink raises
          /\ bagExists' = FALSE
          /\ bagFiles' = {}
          /\ pc' = OnHandlerException("cleanup_failed_job")
          /\ unhandled' = "cleanup_failed_job"
          /\ UNCHANGED tarExists
       \/ /\ bagExists' = FALSE
          /\ bagFiles' = {}
          /\ tarExists' = FALSE
          /\ pc' = AfterCleanup
          /\ UNCHANGED unhandled
    /\ UNCHANGED MetaVars
    /\ UNCHANGED <<format, srcExists, srcFiles, src0, bagged, tarFiles, tarComplete,
                   uploads, events, exc, compressed_path, delivered_path,
                   notified_exc>>

\* client.publish(... outcome FAILURE, format getattr(self, 'format', ...) ...)
deliver_failure_notification ==
    /\ Enter("deliver_failure_notification")
    /\ notified_exc' = exc
    /\ \/ /\ pc' = OnHandlerException("deliver_failure_notification")
          /\ unhandled' = "deliver_failure_notification"
          /\ UNCHANGED events
       \/ /\ events' = Append(events, [outcome |-> "FAILURE",
                                       format |-> FormatAttr(format),
                                       refid |-> "refid", message |-> exc])
          /\ pc' = "returned"
          /\ UNCHANGED unhandled
    /\ UNCHANGED MetaVars
    /\ UNCHANGED <<format, srcExists, srcFiles, src0, bagExists, bagFiles, bagged,
                   tarExists, tarFiles, tarComplete, uploads, exc, compressed_path,
                   delivered_path>>

Next ==
    \/ get_config
    \/ move_to_tmp
    \/ parse_format_step
    \/ create_poster
    \/ deliver_derivatives
    \/ create_bag
    \/ compress_bag
    \/ deliver_package
    \/ cleanup_successful_job
    \/ deliver_success_notification
    \/ cleanup_failed_job
    \/ deliver_failure_notification

Spec == Init /\ [][Next]_vars

(***************************************************************************)
(* Specifications of single steps over larger input sets                   *)
(***************************************************************************)
\* run() about to call parse_format on the staged copy of the files in listed
AtParseFormat(listed) ==
    /\ pc = "parse_format"
    /\ format = Unset
    /\ srcExists = TRUE
    /\ srcFiles = listed
    /\ src0 = [exists |-> TRUE, files |-> listed]
    /\ bagExists = TRUE
    /\ bagFiles = listed
    /\ bagged = FALSE
    /\ tarExists = FALSE
    /\ tarFiles = {}
    /\ tarComplete = FALSE
    /\ uploads = << >>
    /\ events = << >>
    /\ calls = << "get_config", "move_to_tmp" >>
    /\ exc = NoExc
    /\ unhandled = "none"
    /\ compressed_path = NoPath
    /\ delivered_path = NoPath
    /\ notified_exc = NoExc
    /\ pre = [bagExists |-> FALSE, bagFiles |-> {}, tarExists |-> FALSE,
              srcExists |-> TRUE, srcFiles |-> listed, uploads |-> << >>]
    /\ find_result = -1
    /\ date_range = NoRange
    /\ bag_info = NoInfo

\* run() about to call create_bag for an audio job staged from
\* {<refid>.mp3, <refid>.wav}, the access copy delivered
AtCreateBag ==
    /\ pc = "create_bag"
    /\ format = "audio"
    /\ srcExists = TRUE
    /\ srcFiles = {"refid.mp3", "refid.wav"}
    /\ src0 = [exists |-> TRUE, files |-> {"refid.mp3", "refid.wav"}]
    /\ bagExists = TRUE
    /\ bagFiles = {"refid.wav"}
    /\ bagged = FALSE
    /\ tarExists = FALSE
    /\ tarFiles = {}
    /\ tarComplete = FALSE
    /\ uploads = << [bucket |-> "destination_audio_access", key |-> "refid.mp3",
                     ctype |-> "audio/mpeg"] >>
    /\ events = << >>
    /\ calls = << "get_config", "move_to_tmp", "parse_format", "create_poster",
                  "deliver_derivatives" >>
    /\ exc = NoExc
    /\ unhandled = "none"
    /\ compressed_path = NoPath
    /\ delivered_path = NoPath
    /\ notified_exc = NoExc
    /\ pre = [bagExists |-> TRUE, bagFiles |-> {"refid.mp3", "refid.wav"},
              tarExists |-> FALSE, srcExists |-> TRUE,
              srcFiles |-> {"refid.mp3", "refid.wav"}, uploads |-> << >>]
    /\ find_result = -1
    /\ date_range = NoRange
    /\ bag_info = NoInfo

\* date strings of the three precisions
Years == {1900, 1950, 1952, 2000}
Months == {2, 3, 4, 12}
Days == {1, 15, 28}
AllDates ==
    {<< y >> : y \in Years}
        \cup {<< y, m >> : y \in Years, m \in Months}
        \cup {<< y, m, d >> : y \in Years, m \in Months, d \in Days}

\* the dates of the lists of several records
PairDates == { << 1950 >>, << 1950, 3 >>, << 1950, 3, 15 >>, << 1952, 2 >> }

DateRecords(dates) ==
    [date_type : {"single", "inclusive"}, begin : dates, end : dates \cup {NoDate}]

AllDateArrays ==
    {<< r >> : r \in DateRecords(AllDates)}
        \cup UNION {[1..n -> DateRecords(PairDates)] : n \in 0..MaxDates}

AllRightsArgs == UNION {[1..n -> RightsChars] : n \in 0..MaxRightsLen}

InitFormat ==
    /\ \E listed \in SUBSET ListedFiles : AtParseFormat(listed)
    /\ rights_arg \in RunRights
    /\ rights_ids = ParseRights(rights_arg)
    /\ as_dates = << [date_type |-> "single", begin |-> << 1950 >>, end |-> NoDate] >>

NextFormat == parse_format_step

\* parse_format over every list of the listed file names
SpecFormat == InitFormat /\ [][NextFormat]_vars

InitDates ==
    /\ AtCreateBag
    /\ rights_arg \in RunRights
    /\ rights_ids = ParseRights(rights_arg)
    /\ as_dates \in AllDateArrays

NextDates == create_bag

\* create_bag over every date list of the registry
SpecDates == InitDates /\ [][NextDates]_vars

InitRights ==
    /\ AtCreateBag
    /\ rights_arg \in AllRightsArgs
    /\ rights_ids = ParseRights(rights_arg)
    /\ as_dates = << [date_type |-> "single", begin |-> << 1950 >>, end |-> NoDate] >>

NextRights == create_bag

\* create_bag over every rights_ids string of the constructor
SpecRights == InitRights /\ [][NextRights]_vars

\* Packager(...).run() in __main__: the exit status of the process
ExitStatus == IF pc = "raised" THEN 1 ELSE 0

TypeOK ==
    /\ pc \in {ForwardSteps[i] : i \in 1..Len(ForwardSteps)}
              \cup {"cleanup_failed_job", "deliver_failure_notification"} \cup Terminal
    /\ format \in {Unset, "audio", "video"}
    /\ srcFiles \subseteq ListedFiles
    /\ bagFiles \subseteq ListedFiles \cup {"poster.png"}
    /\ find_result \in -1..(MaxResults + 1)
    /\ Len(calls) <= Len(ForwardSteps) + 2

(***************************************************************************)
(* Properties                                                              *)
(***************************************************************************)
Last(seq) == seq[Len(seq)]
Count(seq, x) == Cardinality({i \in 1..Len(seq) : seq[i] = x})
HasUpload(obj) == \E i \in 1..Len(uploads) : uploads[i] = obj
Failed == exc # NoExc
SourceUntouched == srcExists = src0.exists /\ srcFiles = src0.files
BeforeFormat == {"get_config", "move_to_tmp", "parse_format"}

\* C1: in every run in which a step raised, the source directory still
\* exists with unchanged contents when run ends.
C1_SourceUntouchedOnFailure ==
    (pc \in Terminal /\ Failed) => SourceUntouched

\* C2: when forward step k raises, the calls of the run are the forward
\* steps up to k, then cleanup_failed_job, then deliver_failure_notification
\* with the exception of step k, each once.
C2_FailurePathOnce ==
    (pc \in Terminal /\ Failed) =>
        /\ calls = SubSeq(ForwardSteps, 1, IndexOf(exc.step))
                     \o << "cleanup_failed_job", "deliver_failure_notification" >>
        /\ notified_exc = exc

\* C3: while no step has raised the calls are a prefix of the forward steps
\* in their order; a run that returns without a raise has called each
\* forward step once, deliver_package with the path compress_bag returned,
\* and neither statement of the except clause.
C3_SuccessOrder ==
    (~Failed /\ unhandled = "none") =>
        /\ Len(calls) <= Len(ForwardSteps)
        /\ calls = SubSeq(ForwardSteps, 1, Len(calls))
        /\ (Len(calls) >= IndexOf("deliver_package") =>
                /\ compressed_path = ArchivePath(BagDir)
                /\ delivered_path = compressed_path)
        /\ (pc = "returned" => calls = ForwardSteps)

C3_Witness ==
    /\ pc = "returned"
    /\ ~Failed
    /\ calls = ForwardSteps
    /\ delivered_path = "tmp/refid.tar.gz"

\* C4: whenever the source directory has been removed or changed, the
\* package and every entry of the derivative map have been uploaded.
C4_SourceRemovedAfterDeliveries ==
    (src0.exists /\ ~SourceUntouched) =>
        /\ format # Unset
        /\ HasUpload(PackageObject("tmp/refid.tar.gz"))
        /\ \A i \in 1..Len(derivative_map(format)) :
              HasUpload(DerivativeObject(derivative_map(format)[i]))

C4_Witness ==
    /\ src0.exists
    /\ ~srcExists
    /\ Len(uploads) = 4

\* C5: a local file is deleted only after its own upload returned: when the
\* upload of derivative entry i raises, the entries before i have been
\* uploaded and deleted and nothing else was; when the package upload
\* raises the archive still exists.
C5_DeleteOnlyAfterUpload ==
    /\ (pc = "cleanup_failed_job" /\ exc.step = "deliver_derivatives" /\ exc.op = "upload") =>
          LET plan == derivative_map(format)
              i == exc.idx
          IN  /\ \A j \in i..Len(plan) :
                    plan[j].path \in pre.bagFiles => plan[j].path \in bagFiles
              /\ pre.bagFiles \ bagFiles = {plan[j].path : j \in 1..(i - 1)}
              /\ Len(uploads) = Len(pre.uploads) + (i - 1)
              /\ \A j \in 1..(i - 1) :
                    uploads[Len(pre.uploads) + j] = DerivativeObject(plan[j])
    /\ (pc = "cleanup_failed_job" /\ exc.step = "deliver_package" /\ exc.op = "upload") =>
          /\ tarExists
          /\ uploads = pre.uploads
    /\ (calls # << >> /\ Last(calls) = "deliver_derivatives") =>
          \A f \in pre.bagFiles \ bagFiles :
              \E j \in 1..Len(derivative_map(format)) :
                  /\ derivative_map(format)[j].path = f
                  /\ HasUpload(DerivativeObject(derivative_map(format)[j]))
    /\ (calls # << >> /\ Last(calls) = "deliver_package" /\ pre.tarExists /\ ~tarExists) =>
          HasUpload(PackageObject("tmp/refid.tar.gz"))

C5_Witness ==
    /\ pc = "cleanup_failed_job"
    /\ exc = [step |-> "deliver_derivatives", op |-> "upload", idx |-> 2]
    /\ "refid.mp4" \in bagFiles
    /\ "refid.mov" \notin bagFiles
    /\ Len(uploads) = 1

\* C6: cleanup_failed_job completes without raising and leaves neither the
\* working directory nor the archive.
C6_CleanupNeverRaises ==
    (calls # << >> /\ Last(calls) = "cleanup_failed_job") =>
        /\ unhandled = "none"
        /\ ~bagExists
        /\ ~tarExists

SuccessNotificationRaised ==
    \/ exc.step = "deliver_success_notification"
    \/ unhandled = "deliver_success_notification"

\* C7 as stated: an error of deliver_success_notification leaves run uncaught
\* and runs neither cleanup_failed_job nor deliver_failure_notification.
C7_SuccessNotificationUncaught ==
    SuccessNotificationRaised =>
        /\ pc = "raised"
        /\ unhandled = "deliver_success_notification"
        /\ Count(calls, "cleanup_failed_job") = 0
        /\ Count(calls, "deliver_failure_notification") = 0

\* C7 as amended: an error of deliver_success_notification is caught by the
\* except clause of run: it is never the error that leaves run, it runs
\* cleanup_failed_job next and, once that returned,
\* deliver_failure_notification with that error; when both return, run
\* returns with one FAILURE event published.
C7_SuccessNotificationCaught ==
    SuccessNotificationRaised =>
        /\ exc.step = "deliver_success_notification"
        /\ unhandled \in {"none", "cleanup_failed_job", "deliver_failure_notification"}
        /\ pc \in {"cleanup_failed_job", "deliver_failure_notification"} \cup Terminal
        /\ (pc = "cleanup_failed_job" => calls = ForwardSteps)
        /\ (pc # "cleanup_failed_job" =>
                /\ Len(calls) > Len(ForwardSteps)
                /\ calls[Len(ForwardSteps) + 1] = "cleanup_failed_job")
        /\ (pc = "raised" => unhandled # "none")
        /\ ((pc = "returned" \/ unhandled = "deliver_failure_notification") =>
                /\ calls = ForwardSteps
                            \o << "cleanup_failed_job", "deliver_failure_notification" >>
                /\ notified_exc = exc)
        /\ (pc = "returned" =>
                /\ Len(events) = 1
                /\ events[1].outcome = "FAILURE"
                /\ events[1].message = exc)

C7_Witness ==
    /\ exc.step = "deliver_success_notification"
    /\ pc = "returned"
    /\ Last(calls) = "deliver_failure_notification"

\* C8: when deliver_failure_notification raises, the error leaves run
\* uncaught and nothing is executed after it: cleanup_failed_job and
\* deliver_failure_notification have each been called once and the
\* notification is the last call of the run.
C8_FailureNotificationErrorPropagates ==
    (unhandled = "deliver_failure_notification"
        \/ (calls # << >> /\ Last(calls) = "deliver_failure_notification" /\ pc # "returned")) =>
        /\ pc = "raised"
        /\ unhandled = "deliver_failure_notification"
        /\ ExitStatus = 1
        /\ Last(calls) = "deliver_failure_notification"
        /\ Count(calls, "cleanup_failed_job") = 1
        /\ Count(calls, "deliver_failure_notification") = 1
        /\ events = << >>

C8_Witness ==
    /\ unhandled = "deliver_failure_notification"
    /\ pc = "raised"
    /\ Failed

\* C9: the process ends normally exactly when the pipeline succeeded, and
\* abnormally whenever it failed.
C9_ExitStatusTellsOutcome ==
    pc \in Terminal => (ExitStatus = 0 <=> ~Failed)

\* C10: a FAILURE event carries the unknown sentinel exactly when the step
\* that raised is get_config, move_to_tmp or parse_format; otherwise it
\* carries the format classified from the staged files; in the unknown case
\* the source is as it was.
C10_FailureFormat ==
    \A k \in 1..Len(events) :
        events[k].outcome = "FAILURE" =>
            /\ events[k].message = exc
            /\ (events[k].format = UnknownFormat <=> exc.step \in BeforeFormat)
            /\ (exc.step \notin BeforeFormat =>
                    /\ events[k].format \in {"audio", "video"}
                    /\ events[k].format = parse_format(src0.files))
            /\ (events[k].format = UnknownFormat => SourceUntouched)

C10_Witness ==
    /\ events # << >>
    /\ Last(events).outcome = "FAILURE"
    /\ Last(events).format = "unknown format"
    /\ exc.step = "move_to_tmp"

\* the objects one successful deliver_derivatives call puts, per format
DeliveredDerivatives(fmt) ==
    IF fmt = "video" THEN
        << [bucket |-> "destination_video_mezz", key |-> "refid.mov",
            ctype |-> "video/quicktime"],
           [bucket |-> "destination_video_access", key |-> "refid.mp4",
            ctype |-> "video/mp4"],
           [bucket |-> "destination_poster", key |-> "refid.png",
            ctype |-> "image/x-png"] >>
    ELSE
        << [bucket |-> "destination_audio_access", key |-> "refid.mp3",
            ctype |-> "audio/mpeg"] >>

\* C11: a run publishes at most one event, so never a SUCCESS and a FAILURE
\* together; a SUCCESS event exists only when every forward step through
\* cleanup_successful_job completed and none raised, a FAILURE event only
\* when a forward step raised.
C11_OneEventPerRun ==
    /\ Len(events) <= 1
    /\ \A i \in 1..Len(events) :
          /\ events[i].outcome = "SUCCESS" =>
                /\ ~Failed
                /\ calls = ForwardSteps
                /\ ~srcExists
          /\ events[i].outcome = "FAILURE" =>
                /\ Failed
                /\ \E k \in 1..Len(ForwardSteps) : exc.step = ForwardSteps[k]

\* C11 witness: a FAILURE event published for a run whose last forward step,
\* the success notification, raised: the run came closest to both events
C11_Witness ==
    /\ pc = "returned"
    /\ Len(events) = 1
    /\ events[1].outcome = "FAILURE"
    /\ exc.step = "deliver_success_notification"

\* C12: a run that returns without any step raising has put one object per
\* derivative-plan entry followed by exactly one package object
\* <refid>.tar.gz in the package bucket, has published exactly one SUCCESS
\* event carrying the classified format, and leaves no source directory, no
\* working directory and no archive file.
C12_SuccessEndState ==
    (pc = "returned" /\ ~Failed) =>
        /\ format = parse_format(src0.files)
        /\ uploads = DeliveredDerivatives(format)
                        \o << [bucket |-> "destination", key |-> "refid.tar.gz",
                               ctype |-> "application/gzip"] >>
        /\ events = << [outcome |-> "SUCCESS", format |-> format,
                        refid |-> "refid", message |-> NoExc] >>
        /\ ~srcExists
        /\ ~bagExists
        /\ ~tarExists

\* C12 witness: a video run that returned without any step raising
C12_Witness ==
    /\ pc = "returned"
    /\ ~Failed
    /\ format = "video"
    /\ Len(uploads) = 4
    /\ Len(events) = 1

\* the extensions of the staged file names, by kind of content
AudioExtensions == {".mp3", ".wav"}
VideoExtensions == {".mp4", ".mov", ".mkv"}

\* parse_format has just been called on the staged files
Classified == Len(calls) > 0 /\ Last(calls) = "parse_format"

\* the outcome of the call on lists with a suffix in audio, else with a
\* suffix in video, else with neither
ClassifiedBy(audio, video) ==
    IF \E f \in bagFiles : Suffix(f) \in audio
    THEN format = "audio" /\ ~Failed
    ELSE IF \E f \in bagFiles : Suffix(f) \in video
    THEN format = "video" /\ ~Failed
    ELSE /\ format = Unset
         /\ exc = [step |-> "parse_format", op |-> "unrecognized", idx |-> 0]

\* C13 as stated: over every list of file names with the extensions .mp3,
\* .wav, .mp4, .mov, .mkv, .tif and .jpg, parse_format returns audio if any
\* file has an audio extension (.mp3, .wav), otherwise video if any file has
\* a video extension (.mp4, .mov, .mkv), otherwise raises.
C13_ClassifiesByAnyExtension ==
    Classified => ClassifiedBy(AudioExtensions, VideoExtensions)

\* C13 amended: parse_format returns audio exactly when some file has the
\* extension .mp3, otherwise video exactly when some file has the extension
\* .mp4, and otherwise raises the unrecognized-format error and sets no
\* format; a list with both .mp3 and .mp4 is audio.
C13_ClassifiesByDerivativeExtension ==
    Classified => ClassifiedBy({".mp3"}, {".mp4"})

\* C13 witness: a list of video masters without an .mp4 file was rejected
C13_Witness ==
    /\ Classified
    /\ bagFiles = {"refid.mov", "refid.mkv"}
    /\ format = Unset
    /\ exc.step = "parse_format"

\* C14: derivative_map gives for video exactly three entries in the order
\* mezzanine (<refid>.mov, mezzanine bucket, video/quicktime), access
\* (<refid>.mp4, access bucket, video/mp4), poster (poster.png, poster
\* bucket, image/x-png) and for audio exactly one entry (<refid>.mp3, audio
\* access bucket, audio/mpeg), every path inside tmp_dir/<refid>; a
\* deliver_derivatives call that returns has put exactly these objects in
\* this order and removed exactly these files from the working directory.
C14_DerivativePlan ==
    /\ derivative_map("video") =
          << [dir |-> "tmp/refid", path |-> "refid.mov",
              bucket |-> "destination_video_mezz", ctype |-> "video/quicktime"],
             [dir |-> "tmp/refid", path |-> "refid.mp4",
              bucket |-> "destination_video_access", ctype |-> "video/mp4"],
             [dir |-> "tmp/refid", path |-> "poster.png",
              bucket |-> "destination_poster", ctype |-> "image/x-png"] >>
    /\ derivative_map("audio") =
          << [dir |-> "tmp/refid", path |-> "refid.mp3",
              bucket |-> "destination_audio_access", ctype |-> "audio/mpeg"] >>
    /\ (pc = "create_bag" /\ Last(calls) = "deliver_derivatives") =>
          /\ uploads = DeliveredDerivatives(format)
          /\ pre.bagFiles \ bagFiles =
                IF format = "video" THEN {"refid.mov", "refid.mp4", "poster.png"}
                ELSE {"refid.mp3"}
          /\ format \in {"audio", "video"}

\* C14 witness: the three video derivatives delivered, only the master left
C14_Witness ==
    /\ pc = "create_bag"
    /\ Last(calls) = "deliver_derivatives"
    /\ format = "video"
    /\ Len(uploads) = 3
    /\ bagFiles = {"refid.mkv"}

\* create_bag has just written the envelope
Enveloped == Len(calls) > 0 /\ Last(calls) = "create_bag" /\ bagged

\* a non-empty list of records, each a single date or a range with an end
ValidDates(dates_array) ==
    /\ dates_array # << >>
    /\ \A i \in 1..Len(dates_array) :
          dates_array[i].date_type = "single" \/ dates_array[i].end # NoDate

\* the begin values of the records, and the values they contribute as ends
Begins(dates_array) == {dates_array[i].begin : i \in 1..Len(dates_array)}
Ends(dates_array) ==
    {IF dates_array[i].date_type = "single" THEN dates_array[i].begin
     ELSE dates_array[i].end : i \in 1..Len(dates_array)}

\* C15: for every non-empty list of single-date and range records,
\* get_date_range returns the lexicographically least begin value and the
\* lexicographically greatest end value, a single record contributing its
\* begin as its end; the result depends on the set of values only, not on
\* the order of the records.
C15_DateRangeIsLexMinMax ==
    /\ ValidDates(as_dates) => get_date_range(as_dates).ok
    /\ Enveloped =>
          /\ ValidDates(as_dates)
          /\ date_range.ok
          /\ date_range.start \in Begins(as_dates)
          /\ \A b \in Begins(as_dates) : ~StrLess(b, date_range.start)
          /\ date_range.end \in Ends(as_dates)
          /\ \A e \in Ends(as_dates) : ~StrLess(date_range.end, e)

\* C15 witness: a range followed by a later single date, whose begin is the
\* end of the result while the first record's begin is its start
C15_Witness ==
    /\ Enveloped
    /\ Len(as_dates) = 2
    /\ as_dates[1].date_type = "inclusive"
    /\ as_dates[2].date_type = "single"
    /\ date_range.start = as_dates[1].begin
    /\ date_range.end = as_dates[2].begin
    /\ StrLess(as_dates[1].end, as_dates[2].begin)

\* the number of days of a month of the years in Years
LastDayOfMonth(y, m) ==
    IF m = 2 THEN (IF y \in {1952, 2000} THEN 29 ELSE 28)
    ELSE IF m = 4 THEN 30
    ELSE 31

\* the first and the last calendar day a date string stands for
EarliestDay(d) ==
    IF Len(d) = 1 THEN << d[1], 1, 1 >>
    ELSE IF Len(d) = 2 THEN << d[1], d[2], 1 >>
    ELSE d
LatestDay(d) ==
    IF Len(d) = 1 THEN << d[1], 12, 31 >>
    ELSE IF Len(d) = 2 THEN << d[1], d[2], LastDayOfMonth(d[1], d[2]) >>
    ELSE d

\* C16: format_aspace_date widens a start YYYY to YYYY-01-01 and YYYY-MM to
\* YYYY-MM-01, an end YYYY to YYYY-12-31 and YYYY-MM to the last calendar
\* day of that month (28, 29 in leap years, 30 or 31), and returns a fully
\* specified start or end unchanged.
C16_DatesWidened ==
    Enveloped =>
        /\ bag_info.start = EarliestDay(date_range.start)
        /\ bag_info.end = LatestDay(date_range.end)
        /\ Len(date_range.start) = 3 => bag_info.start = date_range.start
        /\ Len(date_range.end) = 3 => bag_info.end = date_range.end

\* C16 witness: February of a century year that is no leap year
C16_Witness ==
    /\ Enveloped
    /\ date_range.start = << 1900 >>
    /\ date_range.end = << 1900, 2 >>
    /\ bag_info.start = << 1900, 1, 1 >>
    /\ bag_info.end = << 1900, 2, 28 >>

\* every record's begin is not later than its end
BeginsNotAfterEnds(dates_array) ==
    \A i \in 1..Len(dates_array) :
        dates_array[i].date_type # "single" =>
            ~StrLess(LatestDay(dates_array[i].end), EarliestDay(dates_array[i].begin))

\* C17: for every non-empty list of records whose begin is not later than
\* their end, in any mix of the three precisions, the Start-Date written by
\* create_bag is not later than the End-Date as a calendar date.
C17_StartNotAfterEnd ==
    (Enveloped /\ BeginsNotAfterEnds(as_dates)) =>
        ~StrLess(bag_info.end, bag_info.start)

\* C17 witness: the end string sorts before the start string, and the
\* widened end is still the later day
C17_Witness ==
    /\ Enveloped
    /\ BeginsNotAfterEnds(as_dates)
    /\ Len(as_dates) = 2
    /\ StrLess(date_range.end, date_range.start)
    /\ StrLess(bag_info.start, bag_info.end)

\* C18: every envelope written by create_bag carries the six metadata
\* fields, each present and non-empty, for every rights_ids string the
\* constructor accepts, the empty string and strings with empty items
\* included; Origin is av_digitization, the profile identifier is
\* zorya_bagit_profile.json and Rights-ID is the list of the comma-separated
\* tags with surrounding whitespace stripped.
C18_EnvelopeFieldsNonEmpty ==
    Enveloped =>
        /\ bag_info.uri # ""
        /\ bag_info.start # NoDate
        /\ bag_info.end # NoDate
        /\ bag_info.origin = "av_digitization"
        /\ bag_info.profile = "zorya_bagit_profile.json"
        /\ bag_info.rights = [i \in 1..Len(Split(rights_arg)) |-> Strip(Split(rights_arg)[i])]
        /\ bag_info.rights # << >>
        /\ \A i \in 1..Len(bag_info.rights) : bag_info.rights[i] # << >>

\* the archive and the package object of this run
ThisPackage == [bucket |-> "destination", key |-> "refid.tar.gz", ctype |-> "application/gzip"]

\* C19: uri_from_refid returns the URI exactly when the registry returns one
\* archival object; with zero or with two or more it raises an error that
\* names the count, is called once only, and the run fails at create_bag:
\* no envelope, no archive made or delivered, the source not removed.
C19_ExactlyOneArchivalObject ==
    /\ find_result # -1 => Count(calls, "create_bag") = 1
    /\ bagged => find_result = 1 /\ bag_info.uri = "/repositories/2/archival_objects/1"
    /\ find_result = 1 => ~(exc.step = "create_bag" /\ exc.op = "results")
    /\ find_result \notin {-1, 1} =>
          /\ exc = [step |-> "create_bag", op |-> "results", idx |-> find_result]
          /\ ~bagged
          /\ bag_info = NoInfo
          /\ Count(calls, "compress_bag") = 0
          /\ Count(calls, "deliver_package") = 0
          /\ Count(calls, "cleanup_successful_job") = 0
          /\ tarFiles = {}
          /\ ~tarComplete
          /\ ~HasUpload(ThisPackage)
          /\ SourceUntouched
          /\ \A i \in 1..Len(events) : events[i].outcome = "FAILURE"

\* C19 witness: two archival objects found, the run ended with the failure
\* notification
C19_Witness ==
    /\ find_result = 2
    /\ pc = "returned"
    /\ Len(events) = 1
    /\ events[1].message = [step |-> "create_bag", op |-> "results", idx |-> 2]

\* the names of the files of the derivative plan
DerivativeFiles(fmt) ==
    IF fmt = "video" THEN {"refid.mov", "refid.mp4", "poster.png"}
    ELSE IF fmt = "audio" THEN {"refid.mp3"}
    ELSE {}

\* C20: when create_bag starts, and from then on, no file named by the
\* derivative plan exists in the working directory; the archive of the run
\* holds none of them, only staged files that remained, and the package
\* object is put only after such an archive was completed.
C20_DerivativesNotInBag ==
    /\ pc = "create_bag" =>
          /\ format \in {"audio", "video"}
          /\ bagFiles \cap DerivativeFiles(format) = {}
    /\ bagged => bagFiles \cap DerivativeFiles(format) = {}
    /\ tarFiles \cap DerivativeFiles(format) = {}
    /\ tarFiles \subseteq src0.files
    /\ HasUpload(ThisPackage) => Count(calls, "compress_bag") = 1

\* C20 witness: the package of a video job delivered with the master only
C20_Witness ==
    /\ HasUpload(ThisPackage)
    /\ format = "video"
    /\ src0.files = {"refid.mp4", "refid.mov", "refid.mkv"}
    /\ tarComplete
    /\ tarFiles = {"refid.mkv"}

\* create_poster has just been called
PosterStepDone == Len(calls) > 0 /\ Last(calls) = "create_poster"

\* C21: create_poster is called in every run in which parse_format returned;
\* for format audio it returns and leaves the working directory as it was;
\* for format video a returning call adds exactly poster.png and leaves
\* the other staged files in place, and a failing ffmpeg run fails the job:
\* no later forward step is called.  Nothing outside the working directory
\* changes.
C21_PosterOnlyForVideo ==
    /\ (format # Unset /\ pc # "create_poster") =>
          Len(calls) >= 4 /\ calls[4] = "create_poster"
    /\ Count(calls, "create_poster") <= 1
    /\ PosterStepDone =>
          /\ format \in {"audio", "video"}
          /\ srcExists = pre.srcExists /\ srcFiles = pre.srcFiles
          /\ uploads = pre.uploads /\ tarExists = pre.tarExists
          /\ bagExists = pre.bagExists
          /\ format = "audio" =>
                /\ ~Failed
                /\ pc = "deliver_derivatives"
                /\ bagFiles = pre.bagFiles
          /\ (format = "video" /\ ~Failed) =>
                /\ pc = "deliver_derivatives"
                /\ "poster.png" \notin pre.bagFiles
                /\ bagFiles = pre.bagFiles \cup {"poster.png"}
          /\ (format = "video" /\ Failed) =>
                /\ exc = [step |-> "create_poster", op |-> "ffmpeg", idx |-> 0]
                /\ pc = "cleanup_failed_job"
                /\ pre.bagFiles \subseteq bagFiles
                /\ bagFiles \subseteq pre.bagFiles \cup {"poster.png"}
    /\ (exc.step = "create_poster") => Count(calls, "deliver_derivatives") = 0

\* C21 witness: the poster added to a video job with a master file
C21_Witness ==
    /\ PosterStepDone
    /\ format = "video"
    /\ ~Failed
    /\ pre.bagFiles = {"refid.mp4", "refid.mkv"}
    /\ bagFiles = {"refid.mp4", "refid.mkv", "poster.png"}

\* compress_bag has just been called
CompressStepDone == Len(calls) > 0 /\ Last(calls) = "compress_bag"

\* C22: a compress_bag call that returns leaves the complete archive
\* tmp_dir/<refid>.tar.gz beside the directory and no directory; when
\* opening or writing the archive fails the directory and its files are as
\* before; the directory is touched only once the archive is complete; and
\* from the start of compress_bag to the start of deliver_package the
\* directory or the archive exists.
C22_ArchiveBeforeRemoval ==
    /\ pc = "compress_bag" => bagExists
    /\ pc \in {"compress_bag", "deliver_package"} => bagExists \/ tarExists
    /\ CompressStepDone =>
          /\ bagExists \/ tarExists
          /\ ~Failed =>
                /\ pc = "deliver_package"
                /\ tarExists /\ tarComplete
                /\ tarFiles = pre.bagFiles
                /\ ~bagExists
                /\ compressed_path = "tmp/refid.tar.gz"
          /\ (Failed /\ exc.op \in {"open", "add"}) =>
                /\ bagExists
                /\ bagFiles = pre.bagFiles
          /\ (bagExists # pre.bagExists \/ bagFiles # pre.bagFiles) =>
                /\ tarExists /\ tarComplete
                /\ tarFiles = pre.bagFiles

\* C22 witness: writing the archive failed part-way, the directory is whole
C22_Witness ==
    /\ CompressStepDone
    /\ exc = [step |-> "compress_bag", op |-> "add", idx |-> 0]
    /\ tarExists /\ ~tarComplete
    /\ bagExists
    /\ bagFiles = {"refid.wav"}

EndedFailed == pc \in Terminal /\ Failed

\* C24: a run that ended after a step raised leaves the source as it was
\* and neither the job's working directory nor its archive, so that
\* move_to_tmp and the later steps of a second run of the job can complete.
C24_FailedRunCanBeResubmitted ==
    EndedFailed =>
        /\ SourceUntouched
        /\ ~bagExists
        /\ ~tarExists

\* C25: when a forward step raised, deliver_failure_notification has been
\* called by the time run ends, also when cleanup_failed_job could not
\* remove the working directory or the archive.
C25_FailureAlwaysNotified ==
    EndedFailed => Count(calls, "deliver_failure_notification") = 1

\* C26: for records of mixed precision the written range covers every
\* record: Start-Date is not later than the earliest day of any begin, and
\* End-Date is not earlier than the latest day of any end value (a single
\* record's begin counting as its end).
C26_RangeCoversEveryRecord ==
    Enveloped =>
        /\ \A b \in Begins(as_dates) : ~StrLess(EarliestDay(b), bag_info.start)
        /\ \A e \in Ends(as_dates) : ~StrLess(bag_info.end, LatestDay(e))

\* the two ways run() is meant to end
Succeeded ==
    /\ ~Failed
    /\ calls = ForwardSteps
    /\ Len(events) = 1 /\ events[1].outcome = "SUCCESS"
FailedAndHandled ==
    /\ Failed
    /\ Count(calls, "cleanup_failed_job") = 1
    /\ Count(calls, "deliver_failure_notification") = 1

\* C27: no step is called twice, a run makes at most twelve calls, and a
\* run that has ended is either Succeeded (every forward step and the
\* success notification completed) or Failed with the failure cleanup and
\* the failure notification both executed, never both.
C27_EndsSucceededOrFailed ==
    /\ \A i, j \in 1..Len(calls) : calls[i] = calls[j] => i = j
    /\ Len(calls) <= Len(ForwardSteps) + 2
    /\ pc \in Terminal => (Succeeded \/ FailedAndHandled)
    /\ ~(Succeeded /\ FailedAndHandled)

\* C28: when a FAILURE event is published, the package of the run has not
\* been put in the package bucket.
C28_FailureMeansNotDelivered ==
    (\E i \in 1..Len(events) : events[i].outcome = "FAILURE") => ~HasUpload(ThisPackage)

====
